---- MODULE Spec2Model ----
(***************************************************************************)
(* order-service: the create-order orchestration (POST /v1/orders) and the *)
(* order read (GET /v1/orders/{id}) of app/main.py, over the orders and    *)
(* order_items tables of app/models.py.                                    *)
(*                                                                         *)
(* A request handler runs on a worker thread.  It is cut into steps at     *)
(* every outbound HTTP call (issue / response) and at every database       *)
(* flush and commit, so that concurrent requests interleave exactly where  *)
(* the code blocks or touches shared storage.                              *)
(***************************************************************************)
EXTENDS Integers, Sequences, FiniteSets, TLC

\* ------------------------------------------------------------------ bounds

\* Create-order requests accepted in one behaviour.
MaxRequests == 2

\* Order ids 0..MaxKeyId are compared when keys are checked to be distinct.
MaxKeyId == 12

\* ------------------------------------------------------- values of the model

\* Python's None for an Optional[int] field.
None == -1

\* Absent / empty e-mail: the code only ever tests an e-mail for truthiness.
NoEmail == ""

\* Worker threads that serve requests concurrently (FastAPI runs a sync
\* endpoint on a thread of its pool).
Workers == {1, 2}

CustomerIds == {1}
RestaurantIds == {5}
\* Address 100 is one of customer 1's addresses, 999 is not.
AddressIds == {100, 999}
Emails == {NoEmail, "u@x"}
PaymentMethods == {"CARD"}

\* Item lists a caller may send: (item_id, quantity) pairs.
ItemLists ==
    { <<>>,
      << [item_id |-> 10, quantity |-> 2], [item_id |-> 11, quantity |-> 1] >> }

\* Unit prices the restaurant's menu may hold for item 10 (item 11 costs 3).
Item10Prices == {5, 6}

\* ------------------------------------------------------------------- state

VARIABLES
    orders,        \* committed rows of table orders: order_id -> row
    order_items,   \* committed rows of table order_items (a set of rows)
    next_order_id, \* next primary key of orders
    next_item_id,  \* next primary key of order_items
    flow,          \* per worker: the handler's position and locals
    owner,         \* per order_id: the request that inserted the row
    menu_price,    \* the restaurant's current unit price per item
    charges,       \* payment-service: charge requests received, per order_id
    assigned,      \* delivery-service: order_ids it answered 201 for
    nreq,          \* create-order requests accepted so far
    last_get       \* the latest GET /v1/orders/{order_id} and its answer

vars == << orders, order_items, next_order_id, next_item_id, flow, owner,
           menu_price, charges, assigned, nreq, last_get >>

\* ------------------------------------------------------------ HTTP plumbing

\* What client.get / client.post can produce: a response, or an exception
\* (connection refused, timeout after 5 s, ...).
Http(status, body) == [kind |-> "http", status |-> status, body |-> body]

TransportError == [kind |-> "error", status |-> 0, body |-> [none |-> TRUE]]

NoBody == [none |-> TRUE]

\* Outcome of a helper: it returns a value, raises HTTPException(status, code),
\* or lets another exception escape (answered 500 by the framework).
Return(v) == [outcome |-> "return", value |-> v]

HTTPException(status, code) ==
    [outcome |-> "http_exception", status |-> status, code |-> code]

Unhandled == [outcome |-> "exception"]

RECURSIVE SumSeq(_)
SumSeq(s) == IF s = <<>> THEN 0 ELSE Head(s) + SumSeq(Tail(s))

\* ------------------------------------------------------------ collaborators

\* customer-service: the addresses it holds for a customer.
KnownAddresses(customer_id) == IF customer_id = 1 THEN {100} ELSE {}

\* customer-service: GET /v1/customers/{id}.
CustomerResponses ==
    { Http(200, [email |-> "c@x", addresses |-> KnownAddresses(1)]),
      Http(200, [email |-> NoEmail, addresses |-> KnownAddresses(1)]),
      Http(404, NoBody),
      TransportError }

\* restaurant-service: the priced line items of an accepted selection.
PricedItems(items, price) ==
    [ i \in 1..Len(items) |->
        [ item_id |-> items[i].item_id,
          quantity |-> items[i].quantity,
          unit_price |-> price[items[i].item_id] ] ]

\* restaurant-service: the body of an accepted selection.
ValidBody(items, price) ==
    LET det == PricedItems(items, price)
    IN  [ valid |-> TRUE,
          total |-> SumSeq([i \in 1..Len(det) |-> det[i].unit_price * det[i].quantity]),
          items |-> det ]

InvalidBody == [valid |-> FALSE, total |-> 0, items |-> <<>>]

\* restaurant-service: POST /internal/v1/validate-items.
MenuResponses(items, price) ==
    { Http(200, ValidBody(items, price)),
      Http(200, InvalidBody),
      Http(500, NoBody),
      TransportError }

\* payment-service: POST /v1/payments/charge.
PaymentResponses ==
    { Http(201, [status |-> "SUCCESS"]),
      Http(201, [status |-> "FAILED"]),
      Http(400, NoBody),
      TransportError }

\* delivery-service: POST /v1/deliveries/assign.
DeliveryResponses == { Http(201, NoBody), Http(500, NoBody), TransportError }

\* notification-service: POST /v1/notifications/email.
NotificationResponses == { Http(201, NoBody), Http(500, NoBody), TransportError }

\* --------------------------------------------------------- helpers of main.py

\* validate_customer_and_address, after client.get has produced r.
validate_customer_and_address(r, address_id) ==
    IF r.kind = "error" THEN Unhandled
    ELSE IF r.status # 200 THEN HTTPException(400, "INVALID_CUSTOMER")
    ELSE IF address_id # None
            /\ ~ \E a \in r.body.addresses : a = address_id
         THEN HTTPException(400, "INVALID_ADDRESS_FOR_CUSTOMER")
    ELSE Return(r.body.email)

\* Variant: the `if not items` check is missing.
items_rejected_never(items) == FALSE

\* validate_restaurant_and_items, its check before any remote call: `not items`.
items_rejected(items) == items = <<>>

\* validate_restaurant_and_items, after client.post has produced r.
validate_restaurant_and_items(r) ==
    IF r.kind = "error" THEN Unhandled
    ELSE IF r.status # 200 THEN HTTPException(502, "MENU_VALIDATION_FAILED")
    ELSE IF ~ r.body.valid THEN HTTPException(400, "INVALID_MENU_SELECTION")
    ELSE Return(r.body)

\* One decimal digit as a character.
DigitChar(d) == << "0", "1", "2", "3", "4", "5", "6", "7", "8", "9" >>[d + 1]

\* str(n) of a non-negative int, as the sequence of its characters.
RECURSIVE Decimal(_)
Decimal(n) ==
    IF n < 10 THEN << DigitChar(n) >>
    ELSE Append(Decimal(n \div 10), DigitChar(n % 10))

\* The Idempotency-Key header of a charge: f"order-{order.order_id}-payment",
\* as the sequence of its characters.
IdempotencyKey(order_id) ==
    << "o", "r", "d", "e", "r", "-" >> \o Decimal(order_id)
        \o << "-", "p", "a", "y", "m", "e", "n", "t" >>

\* Variant: the payment method is part of the key.
ChargeRequest_key_per_method(order, method, email) ==
    [ order_id |-> order.order_id,
      amount |-> order.order_total,
      method |-> method,
      customer_email |-> email,
      idempotency_key |-> IdempotencyKey(order.order_id) \o << "-", method >> ]

\* call_payment_service: the request it builds.
ChargeRequest(order, method, email) ==
    [ order_id |-> order.order_id,
      amount |-> order.order_total,
      method |-> method,
      customer_email |-> email,
      idempotency_key |-> IdempotencyKey(order.order_id) ]

\* Variant: any 201 counts as a successful charge, whatever the body says.
call_payment_service_any_201(r) ==
    IF r.kind = "error" THEN Unhandled
    ELSE Return(r.status = 201)

\* call_payment_service, after client.post has produced r.
call_payment_service(r) ==
    IF r.kind = "error" THEN Unhandled
    ELSE IF r.status = 201 THEN Return(r.body.status = "SUCCESS")
    ELSE Return(FALSE)

\* Variant: any answer of delivery-service counts as an assignment.
call_delivery_assign_any_response(r) ==
    IF r.kind = "error" THEN Unhandled
    ELSE Return(TRUE)

\* call_delivery_assign, after client.post has produced r.
call_delivery_assign(r) ==
    IF r.kind = "error" THEN Unhandled
    ELSE Return(r.status = 201)

\* notify: whether it posts at all (`NOTIFICATION_SERVICE_URL and recipient`).
notify_sends(recipient) == recipient # NoEmail

\* Variant: order_total is not passed, so the column default 0.0 is stored.
NewOrder_default_total(payload, total, order_id) ==
    [ order_id |-> order_id,
      customer_id |-> payload.customer_id,
      restaurant_id |-> payload.restaurant_id,
      address_id |-> payload.address_id,
      order_status |-> "PENDING_PAYMENT",
      payment_status |-> "PENDING",
      order_total |-> 0 ]

\* models.Order(...) as create_order builds it.
NewOrder(payload, total, order_id) ==
    [ order_id |-> order_id,
      customer_id |-> payload.customer_id,
      restaurant_id |-> payload.restaurant_id,
      address_id |-> payload.address_id,
      order_status |-> "PENDING_PAYMENT",
      payment_status |-> "PENDING",
      order_total |-> total ]

\* models.OrderItem(...) for the i-th validated line, with its primary key.
NewOrderItem(order_id, d, order_item_id) ==
    [ order_item_id |-> order_item_id,
      order_id |-> order_id,
      item_id |-> d.item_id,
      quantity |-> d.quantity,
      price |-> d.unit_price ]

\* The order_items rows create_order adds for items_details.
NewOrderItems(order_id, items_details, first_id) ==
    { NewOrderItem(order_id, items_details[i], first_id + i - 1) :
        i \in 1..Len(items_details) }

\* order.items: the relationship Order -> OrderItem, read from storage.
ItemsOf(order_id) == { oi \in order_items : oi.order_id = order_id }

\* Variant: the session commits on flush, before the items are added.
Flush_autocommit(tbl, order) == (order.order_id :> order) @@ tbl

\* db_sess.flush(): the INSERT stays inside the open transaction, so the
\* committed table other sessions read is as before.
Flush(tbl, order) == tbl

\* db_sess.commit() of a transaction that inserted `order`.
CommitInsert(tbl, order) == (order.order_id :> order) @@ tbl

\* Variant: the changed attributes stay in the session and are not committed.
CommitUpdate_lazy(tbl, order) == tbl

\* Variant: the UPDATE has no WHERE clause and writes the statuses on every row.
CommitUpdate_all_rows(tbl, order) ==
    [ oid \in DOMAIN tbl |->
        [ tbl[oid] EXCEPT !.order_status = order.order_status,
                          !.payment_status = order.payment_status ] ]

\* db_sess.commit() of a transaction that changed attributes of `order`.
CommitUpdate(tbl, order) ==
    IF order.order_id \in DOMAIN tbl THEN [tbl EXCEPT ![order.order_id] = order]
    ELSE tbl

\* Variant: a failed payment changes order_status only.
StatusAfterPayment_order_only(order, payment_ok) ==
    IF payment_ok
    THEN [order EXCEPT !.payment_status = "SUCCESS", !.order_status = "CONFIRMED"]
    ELSE [order EXCEPT !.order_status = "PAYMENT_FAILED"]

\* What the payment step writes on the order.
StatusAfterPayment(order, payment_ok) ==
    IF payment_ok
    THEN [order EXCEPT !.payment_status = "SUCCESS", !.order_status = "CONFIRMED"]
    ELSE [order EXCEPT !.order_status = "PAYMENT_FAILED", !.payment_status = "FAILED"]

\* What the delivery step writes on the order.
StatusAfterDelivery(order, delivery_ok) ==
    IF delivery_ok THEN [order EXCEPT !.order_status = "OUT_FOR_DELIVERY"]
    ELSE order

\* schemas.OrderRead: the order and its items as serialised in a response.
OrderRead(order, items) == [order |-> order, items |-> items]

\* ------------------------------------------------------------ handler state

NoPayload ==
    [ customer_id |-> None, restaurant_id |-> None, address_id |-> None,
      items |-> <<>>, payment_method |-> "", customer_email |-> NoEmail ]

NoOrder ==
    [ order_id |-> None, customer_id |-> None, restaurant_id |-> None,
      address_id |-> None, order_status |-> "", payment_status |-> "",
      order_total |-> 0 ]

NoResponse == [status |-> 0, code |-> "", order_id |-> None, body |-> NoBody]

IdleFlow ==
    [ pc |-> "idle", rid |-> 0, payload |-> NoPayload, customer_email |-> NoEmail,
      items_details |-> <<>>, order |-> NoOrder, calls |-> <<>>,
      response |-> NoResponse ]

\* An outbound call of the current request, and the answer once it is known.
Call(svc, req) == [svc |-> svc, req |-> req, resp |-> [kind |-> "pending"]]

\* The handler issues a call: it is appended to the request's calls.
Issue(f, svc, req) == [f EXCEPT !.calls = Append(@, Call(svc, req))]

\* The handler's pending call is answered by r.
Answer(f, r) == [f EXCEPT !.calls[Len(f.calls)].resp = r]

\* The handler ends with HTTPException(status, code); detail carries order_id
\* only for PAYMENT_FAILED.
Raise(f, status, code, order_id) ==
    [ f EXCEPT !.pc = "done",
               !.response = [ status |-> status, code |-> code,
                              order_id |-> order_id, body |-> NoBody ] ]

\* The handler ends with an exception no one catches: 500 from the framework.
Crash(f) == Raise(f, 500, "INTERNAL_SERVER_ERROR", None)

\* The handler ends as a helper's failure outcome says.
Fail(f, res) ==
    IF res.outcome = "http_exception" THEN Raise(f, res.status, res.code, None)
    ELSE Crash(f)

\* Step 2 up to its remote call: the empty check, then the POST is issued.
StartMenuValidation(f) ==
    IF items_rejected(f.payload.items) THEN Raise(f, 400, "EMPTY_ORDER", None)
    ELSE [ Issue(f, "restaurant",
                 [restaurant_id |-> f.payload.restaurant_id, items |-> f.payload.items])
           EXCEPT !.pc = "menu_wait" ]

Payloads ==
    [ customer_id : CustomerIds, restaurant_id : RestaurantIds,
      address_id : AddressIds, items : ItemLists,
      payment_method : PaymentMethods, customer_email : Emails ]

\* No GET has been served yet.
NoGet == [order_id |-> None, response |-> NoResponse]

\* Ids a GET may ask for: every id a request can be given, and one more.
GetIds == 1..(MaxRequests + 1)

\* ------------------------------------------------------------------- Init

Init ==
    /\ orders = << >>
    /\ order_items = {}
    /\ next_order_id = 1
    /\ next_item_id = 1
    /\ flow = [w \in Workers |-> IdleFlow]
    /\ owner = << >>
    /\ menu_price = (10 :> 5) @@ (11 :> 3)
    /\ charges = << >>
    /\ assigned = {}
    /\ nreq = 0
    /\ last_get = NoGet

\* ----------------------------------------------------------------- actions

\* A worker that is serving no request.
Free(w) == flow[w].pc \in {"idle", "done"}

\* POST /v1/orders arrives and the first free worker w takes it (the threads
\* of the pool are interchangeable); step 1 runs up to its remote call.
\* `payload.customer_email or validate_customer_and_address(...)`.
Begin(w) ==
    /\ Free(w)
    /\ \A v \in Workers : v < w => ~ Free(v)
    /\ nreq < MaxRequests
    /\ \E payload \in Payloads :
         LET f0 == [IdleFlow EXCEPT !.rid = nreq + 1, !.payload = payload]
         IN  flow' = [flow EXCEPT ![w] =
                 IF payload.customer_email # NoEmail
                 THEN StartMenuValidation(
                          [f0 EXCEPT !.customer_email = payload.customer_email])
                 ELSE [ Issue(f0, "customer", [customer_id |-> payload.customer_id])
                        EXCEPT !.pc = "customer_wait" ]]
    /\ nreq' = nreq + 1
    /\ UNCHANGED << last_get, orders, order_items, next_order_id, next_item_id, owner,
                    menu_price, charges, assigned >>

\* The customer lookup is answered; step 2 runs up to its remote call.
CustomerResponse(w) ==
    /\ flow[w].pc = "customer_wait"
    /\ \E r \in CustomerResponses :
         LET f == Answer(flow[w], r)
             res == validate_customer_and_address(r, f.payload.address_id)
         IN  flow' = [flow EXCEPT ![w] =
                 IF res.outcome = "return"
                 THEN StartMenuValidation([f EXCEPT !.customer_email = res.value])
                 ELSE Fail(f, res)]
    /\ UNCHANGED << last_get, orders, order_items, next_order_id, next_item_id, owner,
                    menu_price, charges, assigned, nreq >>

\* Variant: the `valid` flag is looked at only after the Order has been
\* inserted and committed.
MenuResponse_checks_late(w) ==
    /\ flow[w].pc = "menu_wait"
    /\ \E r \in MenuResponses(flow[w].payload.items, menu_price) :
         LET f == Answer(flow[w], r)
             res == validate_restaurant_and_items(r)
             order == NewOrder(f.payload, 0, next_order_id)
         IN  IF res.outcome = "return"
             THEN /\ flow' = [flow EXCEPT ![w] =
                        [ f EXCEPT !.items_details = res.value.items,
                                   !.order = NewOrder(f.payload, res.value.total,
                                                      next_order_id),
                                   !.pc = "flushed" ]]
                  /\ next_order_id' = next_order_id + 1
                  /\ orders' = orders
                  /\ owner' = (next_order_id :> f.rid) @@ owner
             ELSE IF r.kind = "http" /\ r.status = 200
             THEN /\ flow' = [flow EXCEPT ![w] = Fail([f EXCEPT !.order = order], res)]
                  /\ next_order_id' = next_order_id + 1
                  /\ orders' = CommitInsert(orders, order)
                  /\ owner' = (next_order_id :> f.rid) @@ owner
             ELSE /\ flow' = [flow EXCEPT ![w] = Fail(f, res)]
                  /\ UNCHANGED << next_order_id, orders, owner >>
    /\ UNCHANGED << last_get, order_items, next_item_id, menu_price, charges, assigned, nreq >>

\* Item validation is answered; on success the Order is added and flushed
\* (INSERT inside the open transaction: the primary key is assigned).
MenuResponse(w) ==
    /\ flow[w].pc = "menu_wait"
    /\ \E r \in MenuResponses(flow[w].payload.items, menu_price) :
         LET f == Answer(flow[w], r)
             res == validate_restaurant_and_items(r)
         IN  IF res.outcome = "return"
             THEN /\ flow' = [flow EXCEPT ![w] =
                        [ f EXCEPT !.items_details = res.value.items,
                                   !.order = NewOrder(f.payload, res.value.total,
                                                      next_order_id),
                                   !.pc = "flushed" ]]
                  /\ next_order_id' = next_order_id + 1
                  /\ orders' = Flush(orders, NewOrder(f.payload, res.value.total,
                                                      next_order_id))
                  /\ owner' = (next_order_id :> f.rid) @@ owner
             ELSE /\ flow' = [flow EXCEPT ![w] = Fail(f, res)]
                  /\ UNCHANGED << next_order_id, orders, owner >>
    /\ UNCHANGED << last_get, order_items, next_item_id, menu_price, charges, assigned, nreq >>

\* The OrderItems are added and the transaction commits: the Order and its
\* items become visible together.
CommitOrder(w) ==
    /\ flow[w].pc = "flushed"
    /\ LET f == flow[w]
           rows == NewOrderItems(f.order.order_id, f.items_details, next_item_id)
       IN  /\ orders' = CommitInsert(orders, f.order)
           /\ order_items' = order_items \cup rows
           /\ next_item_id' = next_item_id + Len(f.items_details)
           /\ flow' = [flow EXCEPT ![w].pc = "call_payment"]
    /\ UNCHANGED << last_get, next_order_id, owner, menu_price, charges, assigned, nreq >>

\* Charge requests payment-service has received for order_id.
Charged(order_id) == IF order_id \in DOMAIN charges THEN charges[order_id] ELSE 0

\* call_payment_service posts the charge.
IssuePayment(w) ==
    /\ flow[w].pc = "call_payment"
    /\ LET f == flow[w]
       IN  /\ flow' = [flow EXCEPT ![w] =
               [ Issue(f, "payment",
                       ChargeRequest(f.order, f.payload.payment_method, f.customer_email))
                 EXCEPT !.pc = "payment_wait" ]]
           /\ charges' = (f.order.order_id :> Charged(f.order.order_id) + 1) @@ charges
    /\ UNCHANGED << last_get, orders, order_items, next_order_id, next_item_id, owner,
                    menu_price, assigned, nreq >>

\* Variant: the `raise` after a failed payment is missing.
AfterPayment_no_raise(g, payment_ok) == [g EXCEPT !.pc = "call_delivery"]

\* After the payment status is committed: `if not payment_ok: ... raise
\* HTTPException(402, ...)`, else on to step 5.
\* Variant: a failed charge is tried again.
AfterPayment_retry(g, payment_ok) ==
    IF payment_ok THEN [g EXCEPT !.pc = "call_delivery"]
    ELSE [g EXCEPT !.pc = "call_payment"]

AfterPayment(g, payment_ok) ==
    IF payment_ok THEN [g EXCEPT !.pc = "call_delivery"]
    ELSE Raise(g, 402, "PAYMENT_FAILED", g.order.order_id)

\* The charge is answered: the status is written and committed; a failed
\* payment ends the request with 402.
PaymentResponse(w) ==
    /\ flow[w].pc = "payment_wait"
    /\ \E r \in PaymentResponses :
         LET f == Answer(flow[w], r)
             res == call_payment_service(r)
         IN  IF res.outcome = "return"
             THEN LET order == StatusAfterPayment(f.order, res.value)
                      g == [f EXCEPT !.order = order]
                  IN  /\ orders' = CommitUpdate(orders, order)
                      /\ flow' = [flow EXCEPT ![w] = AfterPayment(g, res.value)]
             ELSE /\ flow' = [flow EXCEPT ![w] = Fail(f, res)]
                  /\ UNCHANGED orders
    /\ UNCHANGED << last_get, order_items, next_order_id, next_item_id, owner, menu_price,
                    charges, assigned, nreq >>

\* call_delivery_assign posts the assignment.
IssueDelivery(w) ==
    /\ flow[w].pc = "call_delivery"
    /\ LET f == flow[w]
       IN  flow' = [flow EXCEPT ![w] =
               [ Issue(f, "delivery", [order_id |-> f.order.order_id])
                 EXCEPT !.pc = "delivery_wait" ]]
    /\ UNCHANGED << last_get, orders, order_items, next_order_id, next_item_id, owner,
                    menu_price, charges, assigned, nreq >>

\* The assignment is answered: on 201 the order goes OUT_FOR_DELIVERY and the
\* change is committed; otherwise nothing is written.
DeliveryResponse(w) ==
    /\ flow[w].pc = "delivery_wait"
    /\ \E r \in DeliveryResponses :
         LET f == Answer(flow[w], r)
             res == call_delivery_assign(r)
         IN  /\ assigned' = IF r.kind = "http" /\ r.status = 201
                             THEN assigned \cup {f.order.order_id}
                             ELSE assigned
             /\ IF res.outcome = "return"
                THEN LET order == StatusAfterDelivery(f.order, res.value)
                     IN  /\ orders' = IF res.value THEN CommitUpdate(orders, order)
                                      ELSE orders
                         /\ flow' = [flow EXCEPT ![w] =
                                [f EXCEPT !.order = order, !.pc = "notify"]]
                ELSE /\ flow' = [flow EXCEPT ![w] = Fail(f, res)]
                     /\ UNCHANGED orders
    /\ UNCHANGED << last_get, order_items, next_order_id, next_item_id, owner, menu_price,
                    charges, nreq >>

\* Variant: notify has no try/except, so a failed post escapes create_order.
Notify_unguarded(w) ==
    /\ flow[w].pc = "notify"
    /\ LET f == flow[w]
           oid == f.order.order_id
           ok(g) == [ g EXCEPT !.pc = "done",
                               !.order = orders[oid],
                               !.response =
                                   [ status |-> 201, code |-> "CREATED",
                                     order_id |-> oid,
                                     body |-> OrderRead(orders[oid], ItemsOf(oid)) ] ]
       IN  IF f.customer_email # NoEmail /\ notify_sends(f.customer_email)
           THEN \E r \in NotificationResponses :
                    LET g == Answer(Issue(f, "notification",
                                          [ recipient |-> f.customer_email,
                                            order_id |-> oid,
                                            order_total |-> f.order.order_total,
                                            order_status |-> f.order.order_status ]),
                                    r)
                    IN  flow' = [flow EXCEPT ![w] =
                                    IF r.kind = "error" THEN Crash(g) ELSE ok(g)]
           ELSE flow' = [flow EXCEPT ![w] = ok(f)]
    /\ UNCHANGED << last_get, orders, order_items, next_order_id, next_item_id, owner,
                    menu_price, charges, assigned, nreq >>

\* Step 6 and the return: with a contact e-mail notify posts once and swallows
\* whatever happens; the order is refreshed from storage and returned (201).
Notify(w) ==
    /\ flow[w].pc = "notify"
    /\ LET f == flow[w]
           oid == f.order.order_id
           ok(g) == [ g EXCEPT !.pc = "done",
                               !.order = orders[oid],
                               !.response =
                                   [ status |-> 201, code |-> "CREATED",
                                     order_id |-> oid,
                                     body |-> OrderRead(orders[oid], ItemsOf(oid)) ] ]
       IN  IF f.customer_email # NoEmail /\ notify_sends(f.customer_email)
           THEN \E r \in NotificationResponses :
                    flow' = [flow EXCEPT ![w] =
                        ok(Answer(Issue(f, "notification",
                                        [ recipient |-> f.customer_email,
                                          order_id |-> oid,
                                          order_total |-> f.order.order_total,
                                          order_status |-> f.order.order_status ]),
                                  r))]
           ELSE flow' = [flow EXCEPT ![w] = ok(f)]
    /\ UNCHANGED << last_get, orders, order_items, next_order_id, next_item_id, owner,
                    menu_price, charges, assigned, nreq >>

\* The restaurant changes the price of item 10.
PriceChange ==
    /\ \E p \in Item10Prices \ {menu_price[10]} :
         menu_price' = [menu_price EXCEPT ![10] = p]
    /\ UNCHANGED << last_get, orders, order_items, next_order_id, next_item_id, flow, owner,
                    charges, assigned, nreq >>

\* Variant: the items are shown at the restaurant's current prices.
get_order_current_prices(order_id) ==
    IF order_id \notin DOMAIN orders
    THEN [ status |-> 404, code |-> "ORDER_NOT_FOUND", order_id |-> None,
           body |-> NoBody ]
    ELSE [ status |-> 200, code |-> "OK", order_id |-> None,
           body |-> OrderRead(orders[order_id],
                              { [oi EXCEPT !.price = menu_price[oi.item_id]] :
                                  oi \in ItemsOf(order_id) }) ]

\* get_order: the row with that id and its items, or 404.
get_order(order_id) ==
    IF order_id \notin DOMAIN orders
    THEN [ status |-> 404, code |-> "ORDER_NOT_FOUND", order_id |-> None,
           body |-> NoBody ]
    ELSE [ status |-> 200, code |-> "OK", order_id |-> None,
           body |-> OrderRead(orders[order_id], ItemsOf(order_id)) ]

\* GET /v1/orders/{order_id} is served in one step: a single query.
GetOrder(order_id) ==
    /\ last_get' = [order_id |-> order_id, response |-> get_order(order_id)]
    /\ UNCHANGED << orders, order_items, next_order_id, next_item_id, flow, owner,
                    menu_price, charges, assigned, nreq >>

\* One step of the request worker w is serving.
Step(w) ==
    \/ CustomerResponse(w)
    \/ MenuResponse(w)
    \/ CommitOrder(w)
    \/ IssuePayment(w)
    \/ PaymentResponse(w)
    \/ IssueDelivery(w)
    \/ DeliveryResponse(w)
    \/ Notify(w)

\* Concurrent create-order requests at fixed menu prices.
Next == \E w \in Workers : Begin(w) \/ Step(w)

Spec == Init /\ [][Next]_vars

\* A request arrives while no other is being served.
BeginSerial(w) ==
    /\ \A v \in Workers : Free(v)
    /\ Begin(w)

\* Requests served one after the other beside a restaurant whose menu
\* prices change between and during them.
NextMenu ==
    \/ \E w \in Workers : BeginSerial(w) \/ Step(w)
    \/ PriceChange

SpecMenu == Init /\ [][NextMenu]_vars

\* As NextMenu, with orders read at any moment.
NextRead ==
    \/ NextMenu
    \/ \E order_id \in GetIds : GetOrder(order_id)

SpecRead == Init /\ [][NextRead]_vars

\* ================================================================= claims

\* ------------------------------------------------- vocabulary of the claims

ValidationErrors ==
    { "INVALID_CUSTOMER", "INVALID_ADDRESS_FOR_CUSTOMER", "EMPTY_ORDER",
      "INVALID_MENU_SELECTION", "MENU_VALIDATION_FAILED" }

\* The request handled by f has ended and its response is known.
Done(f) == f.pc = "done"

\* Positions, in the calls of request f, of the calls to service svc.
CallsOf(f, svc) == { i \in DOMAIN f.calls : f.calls[i].svc = svc }

\* The answers request f got from service svc.
RespOf(f, svc) ==
    { f.calls[i].resp : i \in { j \in CallsOf(f, svc) : f.calls[j].resp.kind # "pending" } }

\* Order rows inserted by request rid that are visible in storage.
RowsOf(rid) == { oid \in DOMAIN orders : owner[oid] = rid }

\* Order ids ever assigned to request rid, committed or not.
IdsOf(rid) == { oid \in DOMAIN owner : owner[oid] = rid }

PaymentSucceeded(r) == r.kind = "http" /\ r.status = 201 /\ r.body.status = "SUCCESS"

\* A non-201 status, or a 201 whose body status is not SUCCESS.
PaymentRefused(r) ==
    r.kind = "http" /\ ~ (r.status = 201 /\ r.body.status = "SUCCESS")

DeliverySucceeded(r) == r.kind = "http" /\ r.status = 201

\* The request ended 402 PAYMENT_FAILED naming its one row, stored as failed.
FailedAsPaymentFailure(f) ==
    /\ Cardinality(RowsOf(f.rid)) = 1
    /\ \A oid \in RowsOf(f.rid) :
         /\ orders[oid].order_status = "PAYMENT_FAILED"
         /\ orders[oid].payment_status = "FAILED"
         /\ f.response.status = 402
         /\ f.response.code = "PAYMENT_FAILED"
         /\ f.response.order_id = oid

RECURSIVE ItemsTotal(_)
\* Sum of price x quantity over a set of order_items rows.
ItemsTotal(rows) ==
    IF rows = {} THEN 0
    ELSE LET x == CHOOSE y \in rows : TRUE
         IN  x.price * x.quantity + ItemsTotal(rows \ {x})

\* Step 1 let request f through: the caller gave an e-mail, or the lookup
\* answered and validate_customer_and_address returned.
CustomerStepPassed(f) ==
    \/ f.payload.customer_email # NoEmail
    \/ \E r \in RespOf(f, "customer") :
         validate_customer_and_address(r, f.payload.address_id).outcome = "return"

\* ------------------------------------------------------------------- C1

\* C1: whenever a create-order request has ended and its charge was answered
\* with a non-success result (non-201, or 201 with a body status other than
\* SUCCESS), exactly one Order row of that request is stored, it is
\* PAYMENT_FAILED / FAILED, and the response is 402 PAYMENT_FAILED carrying
\* the order_id of that row.
C1_PaymentFailure ==
    \A w \in Workers :
        (Done(flow[w]) /\ \E r \in RespOf(flow[w], "payment") : PaymentRefused(r))
            => FailedAsPaymentFailure(flow[w])

\* A request ended 402 after payment-service answered 201 with status FAILED.
C1_Witness ==
    \E w \in Workers :
        /\ Done(flow[w])
        /\ Http(201, [status |-> "FAILED"]) \in RespOf(flow[w], "payment")
        /\ flow[w].response.status = 402

\* ------------------------------------------------------------------- C2

\* C2: a transport failure or timeout of the charge is handled like any other
\* payment failure (the Order becomes PAYMENT_FAILED / FAILED and the request
\* ends 402 PAYMENT_FAILED with the order id), so no ended request leaves its
\* Order PENDING_PAYMENT / PENDING.
C2_TransportFailureIsPaymentFailure ==
    \A w \in Workers :
        /\ (Done(flow[w]) /\ \E r \in RespOf(flow[w], "payment") : r.kind = "error")
               => FailedAsPaymentFailure(flow[w])
        /\ Done(flow[w])
               => \A oid \in RowsOf(flow[w].rid) :
                      ~ ( orders[oid].order_status = "PENDING_PAYMENT"
                          /\ orders[oid].payment_status = "PENDING" )

\* ------------------------------------------------------------------- C3

\* C3: whenever a request has ended after a successful charge and a delivery
\* assignment that failed in any way (non-201, transport fault, timeout), the
\* response is 201 with the Order, and the Order is stored CONFIRMED / SUCCESS.
C3_DeliveryFailureNotSurfaced ==
    \A w \in Workers :
        ( /\ Done(flow[w])
          /\ \E r \in RespOf(flow[w], "payment") : PaymentSucceeded(r)
          /\ \E r \in RespOf(flow[w], "delivery") : ~ DeliverySucceeded(r) )
            => /\ flow[w].response.status = 201
               /\ \A oid \in RowsOf(flow[w].rid) :
                    /\ orders[oid].order_status = "CONFIRMED"
                    /\ orders[oid].payment_status = "SUCCESS"
                    /\ flow[w].response.order_id = oid

\* ------------------------------------------------------------------- C4

\* C4: whenever a request has ended after a successful charge and a delivery
\* assignment answered 201, its Order is stored, and returned with 201, as
\* OUT_FOR_DELIVERY / SUCCESS; and every stored Order that is OUT_FOR_DELIVERY
\* is one delivery-service answered 201 for.
C4_DeliverySuccess ==
    /\ \A w \in Workers :
         ( /\ Done(flow[w])
           /\ \E r \in RespOf(flow[w], "payment") : PaymentSucceeded(r)
           /\ \E r \in RespOf(flow[w], "delivery") : DeliverySucceeded(r) )
             => /\ Cardinality(RowsOf(flow[w].rid)) = 1
                /\ \A oid \in RowsOf(flow[w].rid) :
                     /\ orders[oid].order_status = "OUT_FOR_DELIVERY"
                     /\ orders[oid].payment_status = "SUCCESS"
                     /\ flow[w].response.status = 201
                     /\ flow[w].response.body = OrderRead(orders[oid], ItemsOf(oid))
    /\ \A oid \in DOMAIN orders :
         orders[oid].order_status = "OUT_FOR_DELIVERY" => oid \in assigned

\* A request returned 201 with an Order that is OUT_FOR_DELIVERY.
C4_Witness ==
    \E w \in Workers :
        /\ Done(flow[w])
        /\ flow[w].response.status = 201
        /\ flow[w].response.order_id \in assigned
        /\ orders[flow[w].response.order_id].order_status = "OUT_FOR_DELIVERY"

\* ------------------------------------------------------------------- C5

\* C5: every order_id payment-service has been asked to charge is a stored
\* Order; a stored Order of a request in progress always has all the
\* OrderItems of that request (never fewer); and while the charge is in
\* flight the stored Order is PENDING_PAYMENT / PENDING.
C5_CommittedBeforeCharge ==
    /\ \A oid \in DOMAIN charges : oid \in DOMAIN orders
    /\ \A w \in Workers :
         LET f == flow[w]
             oid == f.order.order_id
         IN  /\ oid \in DOMAIN orders
                  => ItemsOf(oid) \in
                       { NewOrderItems(oid, f.items_details, k) : k \in 1..next_item_id }
             /\ f.pc = "payment_wait"
                  => /\ oid \in DOMAIN orders
                     /\ orders[oid].order_status = "PENDING_PAYMENT"
                     /\ orders[oid].payment_status = "PENDING"

\* A charge is in flight for a stored Order that has its two items.
C5_Witness ==
    \E w \in Workers :
        /\ flow[w].pc = "payment_wait"
        /\ Charged(flow[w].order.order_id) = 1
        /\ Cardinality(ItemsOf(flow[w].order.order_id)) = 2

\* ------------------------------------------------------------------- C6

\* C6: whenever a request has ended with one of the validation errors, no
\* order id was ever assigned to it (so no Order or OrderItem row of it exists,
\* committed or pending) and it issued no payment, delivery or notification
\* call.
C6_ValidationFailureNoEffect ==
    \A w \in Workers :
        (Done(flow[w]) /\ flow[w].response.code \in ValidationErrors)
            => /\ IdsOf(flow[w].rid) = {}
               /\ flow[w].order = NoOrder
               /\ \A oi \in order_items : oi.order_id \in DOMAIN owner
               /\ \A oi \in order_items : owner[oi.order_id] # flow[w].rid
               /\ \A svc \in {"payment", "delivery", "notification"} :
                    CallsOf(flow[w], svc) = {}

\* A request ended INVALID_MENU_SELECTION after the restaurant answered.
C6_Witness ==
    \E w \in Workers :
        /\ Done(flow[w])
        /\ flow[w].response.code = "INVALID_MENU_SELECTION"
        /\ RespOf(flow[w], "restaurant") # {}

\* ------------------------------------------------------------------- C7

\* C7 as stated: every request with an empty items list never calls the
\* restaurant's validation endpoint, creates no Order, and fails with
\* EMPTY_ORDER.  It is stated here for the requests all of whose calls were
\* answered over HTTP, so that what refutes it is an ordinary answer of
\* customer-service and not a transport fault.
C7_EmptyOrderAlways ==
    \A w \in Workers :
        ( /\ Done(flow[w])
          /\ flow[w].payload.items = <<>>
          /\ \A i \in DOMAIN flow[w].calls : flow[w].calls[i].resp.kind = "http" )
            => /\ CallsOf(flow[w], "restaurant") = {}
               /\ IdsOf(flow[w].rid) = {}
               /\ flow[w].response.code = "EMPTY_ORDER"

\* C7 amended: a request with an empty items list never calls the restaurant's
\* validation endpoint and creates no Order; it never succeeds; it fails with
\* EMPTY_ORDER exactly when step 1 lets it through, and otherwise with step 1's
\* own failure.
C7_EmptyOrderAfterCustomerStep ==
    \A w \in Workers :
        LET f == flow[w]
        IN  (f.rid # 0 /\ f.payload.items = <<>>)
              => /\ CallsOf(f, "restaurant") = {}
                 /\ IdsOf(f.rid) = {}
                 /\ Done(f) =>
                      /\ f.response.status # 201
                      /\ CustomerStepPassed(f) => f.response.code = "EMPTY_ORDER"
                      /\ ~ CustomerStepPassed(f) =>
                           f.response.code \in
                             { "INVALID_CUSTOMER", "INVALID_ADDRESS_FOR_CUSTOMER",
                               "INTERNAL_SERVER_ERROR" }

\* A request with no items passed the customer lookup and ended EMPTY_ORDER.
C7_Witness ==
    \E w \in Workers :
        /\ Done(flow[w])
        /\ flow[w].payload.items = <<>>
        /\ RespOf(flow[w], "customer") # {}
        /\ flow[w].response.code = "EMPTY_ORDER"

\* ------------------------------------------------------------------- C8

AllowedTransitions ==
    { << "PENDING_PAYMENT", "CONFIRMED" >>,
      << "CONFIRMED", "OUT_FOR_DELIVERY" >>,
      << "PENDING_PAYMENT", "PAYMENT_FAILED" >> }

\* C8: in every step, the stored order_status of an Order either stays or
\* moves along PENDING_PAYMENT -> CONFIRMED, CONFIRMED -> OUT_FOR_DELIVERY or
\* PENDING_PAYMENT -> PAYMENT_FAILED; no row disappears; and a PAYMENT_FAILED
\* Order keeps its order_status and payment_status.
C8_StatusTransitions ==
    [][ \A oid \in DOMAIN orders :
          /\ oid \in DOMAIN orders'
          /\ \/ orders'[oid].order_status = orders[oid].order_status
             \/ << orders[oid].order_status, orders'[oid].order_status >>
                   \in AllowedTransitions
          /\ orders[oid].order_status = "PAYMENT_FAILED"
               => /\ orders'[oid].order_status = "PAYMENT_FAILED"
                  /\ orders'[oid].payment_status = orders[oid].payment_status
      ]_vars

\* One Order has gone all the way to OUT_FOR_DELIVERY, another has failed.
C8_Witness ==
    \E a, b \in DOMAIN orders :
        /\ orders[a].order_status = "OUT_FOR_DELIVERY"
        /\ orders[b].order_status = "PAYMENT_FAILED"

\* ------------------------------------------------------------------- C9

C11_AddressBelongsToCustomer ==
    /\ \A oid \in DOMAIN orders :
         orders[oid].address_id # None
           => orders[oid].address_id \in KnownAddresses(orders[oid].customer_id)
    /\ \A w \in Workers :
         \A i \in CallsOf(flow[w], "payment") :
           flow[w].payload.address_id # None
             => flow[w].payload.address_id
                  \in KnownAddresses(flow[w].payload.customer_id)

\* ------------------------------------------------------------------- C12

\* C12: the step that notifies and returns leaves every Order and OrderItem
\* as it was and answers 201 with the Order as stored before the step,
\* whatever notification-service does (201, an error status, a transport
\* fault); it posts a notification exactly when a contact e-mail is known.
C12_NotificationNeverMatters ==
    [][ \A w \in Workers :
          (flow[w].pc = "notify" /\ flow'[w].pc # "notify")
            => LET oid == flow[w].order.order_id
               IN  /\ orders' = orders
                   /\ order_items' = order_items
                   /\ flow'[w].pc = "done"
                   /\ flow'[w].response =
                        [ status |-> 201, code |-> "CREATED", order_id |-> oid,
                          body |-> OrderRead(orders[oid], ItemsOf(oid)) ]
                   /\ (CallsOf(flow'[w], "notification") # {})
                        <=> (flow[w].customer_email # NoEmail)
                   /\ Cardinality(CallsOf(flow'[w], "notification")) <= 1
      ]_vars

\* A request returned 201 although its notification hit a transport fault.
C12_Witness ==
    \E w \in Workers :
        /\ Done(flow[w])
        /\ TransportError \in RespOf(flow[w], "notification")
        /\ flow[w].response.status = 201

\* ------------------------------------------------------------------- C13

\* Payment methods and e-mails a second attempt for the same order could carry.
AnyMethods == PaymentMethods \cup {"UPI", "WALLET"}

\* The key of each order id 0..MaxKeyId.
KeyTable == [ b \in 0..MaxKeyId |-> IdempotencyKey(b) ]

\* Different order ids have different keys.
KeysDistinct ==
    \A a, b \in 0..MaxKeyId : a # b => KeyTable[a] # KeyTable[b]

\* C13: the key of every issued charge request is order-{order_id}-payment
\* for the Order it charges; building the request again for that Order with
\* any payment method and any e-mail gives the same key, whatever the answer
\* to the first; and different order ids have different keys.
C13_IdempotencyKey ==
    /\ KeysDistinct
    /\ \A w \in Workers :
         \A i \in CallsOf(flow[w], "payment") :
           LET q == flow[w].calls[i].req
           IN  /\ q.order_id = flow[w].order.order_id
               /\ q.order_id \in 0..MaxKeyId
               /\ q.idempotency_key = KeyTable[q.order_id]
               /\ Len(q.idempotency_key) = 14 + Len(Decimal(q.order_id))
               /\ \A m \in AnyMethods : \A e \in Emails :
                    ChargeRequest(flow[w].order, m, e).idempotency_key
                      = q.idempotency_key
               /\ \A v \in Workers : \A j \in CallsOf(flow[v], "payment") :
                    LET p == flow[v].calls[j].req
                    IN  (p.order_id = q.order_id)
                          <=> (p.idempotency_key = q.idempotency_key)

\* Two requests have each issued a charge, for different orders, one answered
\* with a refusal and one with a success.
C13_Witness ==
    \E w, v \in Workers :
        /\ w # v
        /\ \E r \in RespOf(flow[w], "payment") : PaymentRefused(r)
        /\ \E r \in RespOf(flow[v], "payment") : PaymentSucceeded(r)
        /\ flow[w].order.order_id # flow[v].order.order_id

\* ------------------------------------------------------------------- C14

\* The answer get_order must give for order_id in the current state.
ExpectedRead(order_id) ==
    IF order_id \in DOMAIN orders
    THEN [ status |-> 200, code |-> "OK", order_id |-> None,
           body |-> [ order |-> orders[order_id],
                      items |-> { oi \in order_items : oi.order_id = order_id } ] ]
    ELSE [ status |-> 404, code |-> "ORDER_NOT_FOUND", order_id |-> None,
           body |-> NoBody ]

\* C14: a GET answers 404 ORDER_NOT_FOUND for an id no Order has and 200 with
\* the stored OrderItems for an existing id, and changes no Order and no
\* OrderItem; no step of any kind changes the items of an existing Order, so
\* the items a GET returned stay the stored items of that Order after later
\* create-order requests and menu price changes.
C14_GetOrderIsPureRead ==
    /\ [][ /\ last_get' # last_get
              => /\ orders' = orders
                 /\ order_items' = order_items
                 /\ last_get'.response = ExpectedRead(last_get'.order_id)
                 /\ (last_get'.order_id \notin DOMAIN owner
                       => last_get'.response.status = 404)
           /\ \A oid \in DOMAIN orders :
                { oi \in order_items' : oi.order_id = oid }
                  = { oi \in order_items : oi.order_id = oid }
        ]_vars
    /\ [](last_get.response.status = 200
            => last_get.response.body.items
                 = { oi \in order_items : oi.order_id = last_get.order_id })

\* An Order's items were read, priced as at creation, after the menu price of
\* one of them had changed and a later Order had been stored.
C14_Witness ==
    /\ last_get.response.status = 200
    /\ \E oi \in last_get.response.body.items : oi.price # menu_price[oi.item_id]
    /\ \E oid \in DOMAIN orders : oid > last_get.order_id

\* An id that no Order has was read.
C14_WitnessNotFound ==
    /\ last_get.response.status = 404
    /\ last_get.order_id \notin DOMAIN owner

\* ------------------------------------------------------------------- C15

\* The statuses the answers request f has received so far lead to.
StatusFromOwnAnswers(f) ==
    IF \E r \in RespOf(f, "payment") : PaymentRefused(r)
    THEN << "PAYMENT_FAILED", "FAILED" >>
    ELSE IF \E r \in RespOf(f, "payment") : PaymentSucceeded(r)
    THEN IF \E r \in RespOf(f, "delivery") : DeliverySucceeded(r)
         THEN << "OUT_FOR_DELIVERY", "SUCCESS" >>
         ELSE << "CONFIRMED", "SUCCESS" >>
    ELSE << "PENDING_PAYMENT", "PENDING" >>

\* The worker serving the request that created Order oid moved in this step,
\* and no other worker did.
OnlyCreatorMoved(oid) ==
    \E w \in Workers :
        /\ flow[w].rid = owner'[oid] \/ flow'[w].rid = owner'[oid]
        /\ flow'[w].rid = owner'[oid]
        /\ flow'[w].order.order_id = oid
        /\ flow'[w] # flow[w]
        /\ \A v \in Workers \ {w} : flow'[v] = flow[v]

\* C15: under every interleaving, two requests never hold the same order_id
\* and each order_id belongs to one request; the stored statuses of a
\* request's Order are those its own answers from payment-service and
\* delivery-service lead to, whatever the other requests were answered; and
\* every step that inserts or changes an Order row or inserts an OrderItem is
\* a step of the request that created that Order.
C15_RequestsIndependent ==
    /\ [] ( /\ \A w, v \in Workers :
                 ( /\ w # v
                   /\ flow[w].order.order_id # None
                   /\ flow[v].order.order_id # None )
                   => flow[w].order.order_id # flow[v].order.order_id
            /\ \A w \in Workers :
                 LET oid == flow[w].order.order_id
                 IN  /\ oid # None => (oid \in DOMAIN owner /\ owner[oid] = flow[w].rid)
                     /\ Cardinality(IdsOf(flow[w].rid)) <= 1
                     /\ oid \in DOMAIN orders
                          => << orders[oid].order_status, orders[oid].payment_status >>
                               = StatusFromOwnAnswers(flow[w]) )
    /\ [][ /\ \A oid \in DOMAIN orders' :
                (oid \notin DOMAIN orders \/ orders'[oid] # orders[oid])
                  => OnlyCreatorMoved(oid)
           /\ \A oi \in order_items' \ order_items : OnlyCreatorMoved(oi.order_id)
           /\ \A oi \in order_items : oi \in order_items'
           /\ \A oid \in DOMAIN orders : oid \in DOMAIN orders'
        ]_vars

\* Two requests are in flight at once on different Orders: one awaits its
\* charge while the other, already charged, awaits its delivery assignment.
C15_Witness ==
    \E w, v \in Workers :
        /\ flow[w].pc = "payment_wait"
        /\ flow[v].pc = "delivery_wait"
        /\ flow[w].order.order_id \in DOMAIN orders
        /\ flow[v].order.order_id \in DOMAIN orders
        /\ orders[flow[w].order.order_id].order_status = "PENDING_PAYMENT"
        /\ orders[flow[v].order.order_id].order_status = "CONFIRMED"

\* ------------------------------------------------------------------- C16

\* C16: whenever a request has ended after its item validation call hit a
\* transport fault or timeout, or was answered with a non-200 status, the
\* response is 502 MENU_VALIDATION_FAILED and no order id was ever assigned
\* to the request.
C16_RestaurantFaultIs502 ==
    \A w \in Workers :
        ( /\ Done(flow[w])
          /\ \E r \in RespOf(flow[w], "restaurant") :
               r.kind = "error" \/ r.status # 200 )
            => /\ flow[w].response.status = 502
               /\ flow[w].response.code = "MENU_VALIDATION_FAILED"
               /\ IdsOf(flow[w].rid) = {}

\* ------------------------------------------------------------------- C17

\* C17: whenever a request has ended after its customer lookup hit a
\* transport fault or timeout, or was answered with a non-200 status, the
\* response is 400 INVALID_CUSTOMER and no order id was ever assigned to the
\* request.
C17_CustomerFaultIsInvalidCustomer ==
    \A w \in Workers :
        ( /\ Done(flow[w])
          /\ \E r \in RespOf(flow[w], "customer") :
               r.kind = "error" \/ r.status # 200 )
            => /\ flow[w].response.status = 400
               /\ flow[w].response.code = "INVALID_CUSTOMER"
               /\ IdsOf(flow[w].rid) = {}

\* ------------------------------------------------------------------- C18

Services == {"customer", "restaurant", "payment", "delivery", "notification"}

\* C18: a request has called each collaborator at most once, and
\* payment-service has received at most one charge request per order_id,
\* whatever the calls were answered.
C18_NoRetries ==
    /\ \A w \in Workers : \A svc \in Services :
         Cardinality(CallsOf(flow[w], svc)) <= 1
    /\ \A w \in Workers : Len(flow[w].calls) <= Cardinality(Services)
    /\ \A oid \in DOMAIN charges : charges[oid] <= 1

\* A request has ended after calling all five collaborators once each, and
\* another ended after a refused charge that was not tried again.
C18_Witness ==
    \E w, v \in Workers :
        /\ Done(flow[w])
        /\ \A svc \in Services : Cardinality(CallsOf(flow[w], svc)) = 1
        /\ Done(flow[v])
        /\ \E r \in RespOf(flow[v], "payment") : PaymentRefused(r)
        /\ charges[flow[v].order.order_id] = 1

\* ------------------------------------------------------------------- C19

\* The committed row of Order oid has these statuses.
Committed(oid, order_status, payment_status) ==
    /\ oid \in DOMAIN orders
    /\ orders[oid].order_status = order_status
    /\ orders[oid].payment_status = payment_status

\* C19: at every point of a request, the committed Order is what the last
\* completed step wrote: nothing before the insert commits, PENDING_PAYMENT /
\* PENDING until the charge is answered, CONFIRMED / SUCCESS from then until
\* the delivery assignment is answered, and CONFIRMED or OUT_FOR_DELIVERY
\* after it.  So a delivery-assignment call exists only for an Order committed
\* with payment SUCCESS, a request whose charge did not succeed has issued no
\* delivery-assignment call and no notification, and every committed Order is
\* in one of the four statuses.
C19_CommittedBeforeNextCall ==
    /\ \A w \in Workers :
         LET f == flow[w]
             oid == f.order.order_id
         IN  /\ f.pc = "flushed" => oid \notin DOMAIN orders
             /\ f.pc \in {"call_payment", "payment_wait"}
                  => Committed(oid, "PENDING_PAYMENT", "PENDING")
             /\ f.pc \in {"call_delivery", "delivery_wait"}
                  => Committed(oid, "CONFIRMED", "SUCCESS")
             /\ f.pc = "notify"
                  => IF \E r \in RespOf(f, "delivery") : DeliverySucceeded(r)
                     THEN Committed(oid, "OUT_FOR_DELIVERY", "SUCCESS")
                     ELSE Committed(oid, "CONFIRMED", "SUCCESS")
             /\ CallsOf(f, "delivery") # {}
                  => \/ Committed(oid, "CONFIRMED", "SUCCESS")
                     \/ Committed(oid, "OUT_FOR_DELIVERY", "SUCCESS")
             /\ (\E r \in RespOf(f, "payment") : ~ PaymentSucceeded(r))
                  => /\ CallsOf(f, "delivery") = {}
                     /\ CallsOf(f, "notification") = {}
             /\ (Done(f) /\ \E r \in RespOf(f, "payment") : PaymentRefused(r))
                  => Committed(oid, "PAYMENT_FAILED", "FAILED")
    /\ \A oid \in assigned : oid \in DOMAIN orders /\ orders[oid].payment_status = "SUCCESS"
    /\ \A oid \in DOMAIN orders :
         orders[oid].order_status \in
           {"PENDING_PAYMENT", "PAYMENT_FAILED", "CONFIRMED", "OUT_FOR_DELIVERY"}

\* A delivery-assignment call is in flight for an Order committed as
\* CONFIRMED / SUCCESS.
C19_Witness ==
    \E w \in Workers :
        /\ flow[w].pc = "delivery_wait"
        /\ \E i \in CallsOf(flow[w], "delivery") : flow[w].calls[i].resp.kind = "pending"
        /\ Committed(flow[w].order.order_id, "CONFIRMED", "SUCCESS")

\* ------------------------------------------------------------------- C20

\* The combinations of order_status and payment_status that go together.
ConsistentStatuses ==
    { << "PENDING_PAYMENT", "PENDING" >>, << "PAYMENT_FAILED", "FAILED" >>,
      << "CONFIRMED", "SUCCESS" >>, << "OUT_FOR_DELIVERY", "SUCCESS" >> }

\* C20: every committed Order has order_status and payment_status in one of
\* the combinations PENDING_PAYMENT with PENDING, PAYMENT_FAILED with FAILED,
\* CONFIRMED or OUT_FOR_DELIVERY with SUCCESS.
C20_StatusesConsistent ==
    \A oid \in DOMAIN orders :
        << orders[oid].order_status, orders[oid].payment_status >> \in ConsistentStatuses

\* Orders are stored in two different combinations at once, one of them that
\* of a failed payment.
C20_Witness ==
    \E a, b \in DOMAIN orders :
        /\ orders[a].payment_status = "FAILED"
        /\ orders[b].payment_status \in {"PENDING", "SUCCESS"}
        /\ orders[b].order_status \in {"PENDING_PAYMENT", "CONFIRMED"}

====
